---------------------------- MODULE Spec2Model ----------------------------
(***************************************************************************)
(* A model of nibabel/dicom/dicomwrappers.py: the DICOM wrapper hierarchy  *)
(* (Wrapper, SiemensWrapper, MosaicWrapper), its lazily computed           *)
(* attributes, get_affine, get_data and maybe_same_volume_as.              *)
(*                                                                         *)
(* Conventions.                                                            *)
(*  - A Python value is None, Val(x) or, for the outcome of a call,        *)
(*    Raise(e) with e the name of the exception class.                     *)
(*  - Numbers that the code computes in floating point are exact           *)
(*    rationals <<n, d>> in lowest terms with d > 0.                       *)
(*  - A matrix is the sequence of its rows.                                *)
(*  - numpy behaves as it did when the module was written: `arr == None`   *)
(*    is the scalar False, so `None in (arr, x)` is decided by identity,   *)
(*    and reshape() truncates float extents to integers.                   *)
(***************************************************************************)
EXTENDS Integers, Sequences, FiniteSets, TLC

VARIABLES
    pc,      \* "start": input chosen, nothing built; "live"; "failed"
    dcm,     \* the DICOM record handed to the factory / constructor
    self,    \* the wrapper under test (NoWrapper before construction)
    other,   \* the second wrapper of maybe_same_volume_as (else NoWrapper)
    last     \* the most recent operation and its outcome

vars == <<pc, dcm, self, other, last>>

---------------------------------------------------------------------------
(* Python values *)

None == [t |-> "None"]
Unset == [t |-> "Unset"]
Val(x) == [t |-> "val", v |-> x]
Raise(e) == [t |-> "raise", e |-> e]
IsRaise(r) == r.t = "raise"

\* the pair (object after the call, outcome of the call)
Ret(w, r) == [w |-> w, r |-> r]

---------------------------------------------------------------------------
(* Exact arithmetic *)

Abs(x) == IF x < 0 THEN -x ELSE x

RECURSIVE GCD(_, _)
GCD(a, b) == IF b = 0 THEN a ELSE GCD(b, a % b)

Rat(n, d) == LET g == GCD(Abs(n), d) IN <<n \div g, d \div g>>
RInt(n) == <<n, 1>>
RAdd(p, q) == Rat(p[1] * q[2] + q[1] * p[2], p[2] * q[2])
RSub(p, q) == Rat(p[1] * q[2] - q[1] * p[2], p[2] * q[2])
RMul(p, q) == Rat(p[1] * q[1], p[2] * q[2])
RDivInt(p, k) == Rat(p[1], p[2] * k)
RIsInt(p) == p[2] = 1
RFloor(p) == p[1] \div p[2]

RVec(v) == [i \in DOMAIN v |-> RInt(v[i])]

RECURSIVE SumTo(_, _)
SumTo(f, n) == IF n = 0 THEN 0 ELSE f[n] + SumTo(f, n - 1)

Dot3(a, b) == a[1] * b[1] + a[2] * b[2] + a[3] * b[3]
Cross(a, b) == << a[2] * b[3] - a[3] * b[2],
                  a[3] * b[1] - a[1] * b[3],
                  a[1] * b[2] - a[2] * b[1] >>
Col(M, j) == [i \in DOMAIN M |-> M[i][j]]
Transpose(M) == [j \in DOMAIN M[1] |-> Col(M, j)]
MatMul(A, B) ==
    [i \in DOMAIN A |->
        [j \in DOMAIN B[1] |->
            SumTo([k \in DOMAIN B |-> A[i][k] * B[k][j]], Len(B))]]
Eye3 == << <<1, 0, 0>>, <<0, 1, 0>>, <<0, 0, 1>> >>
Zeros3x3 == << <<0, 0, 0>>, <<0, 0, 0>>, <<0, 0, 0>> >>

\* np.allclose(a, b, rtol=1e-5, atol): |a - b| <= atol + rtol * |b| for
\* every entry; atol is given in units of 1e-8 so the test is in integers.
RtolE8 == 1000
AllCloseMat(A, B, atolE8) ==
    \A i \in DOMAIN A : \A j \in DOMAIN A[i] :
        100000000 * Abs(A[i][j] - B[i][j]) <= atolE8 + RtolE8 * Abs(B[i][j])

\* np.ceil(np.sqrt(n)) for an integer n >= 0
CeilSqrt(n) == CHOOSE g \in 0..n : g * g >= n /\ (g = 0 \/ (g - 1) * (g - 1) < n)

---------------------------------------------------------------------------
(* The record (dcm_data) and the vendor sub-header (csa_header) *)

DcmKeys == {"Rows", "Columns", "ImageOrientationPatient", "PixelSpacing",
            "SpacingBetweenSlices", "ImagePositionPatient",
            "RescaleSlope", "RescaleIntercept", "pixel_array",
            "SeriesNumber", "ImageType", "SequenceName", "SeriesInstanceID",
            "EchoNumbers", "InstanceNumber", "CSAImageHeader"}

\* `dcm_data = {}`: no field is defined
EmptyDcm == [k \in DcmKeys |-> None]

\* `csa_header = {}`: every lookup finds nothing
EmptyCsa == [is_mosaic |-> FALSE, NumberOfImagesInMosaic |-> None,
             SliceNormalVector |-> None, B_matrix |-> None, B_value |-> None,
             ICE_Dims |-> None]

\* Wrapper.get(key, default=None): getattr(self.dcm_data, key, default)
get(w, key) == w.dcm_data[key]
getd(w, key, default) ==
    IF w.dcm_data[key] = None THEN Val(default) ELSE w.dcm_data[key]

\* csareader (not part of these sources): each accessor returns the
\* sub-header's field, None when it is absent; get_n_mosaic may raise KeyError
get_csa_header(d) == d["CSAImageHeader"]
is_mosaic(hdr) == hdr.is_mosaic
get_slice_normal(hdr) == hdr.SliceNormalVector
get_b_matrix(hdr) == hdr.B_matrix
get_b_value(hdr) == hdr.B_value
get_n_mosaic(hdr) == hdr.NumberOfImagesInMosaic
get_ice_dims(hdr) == hdr.ICE_Dims

---------------------------------------------------------------------------
(* Wrapper objects and the one_time (setattr_on_read) descriptor *)

Attrs == {"image_shape", "image_orient_patient", "slice_normal",
          "rotation_matrix", "voxel_sizes", "image_position",
          "slice_indicator", "b_matrix", "q_vector", "ice_dims"}

\* the attributes that are plain class attributes of Wrapper, not one_time
ClassAttrs == {"b_matrix", "q_vector", "ice_dims"}

NoWrapper == [cls |-> "none"]

\* An instance: its class, its fields, the attributes one_time has stored on
\* it (cache) and, for observation, how often each getter has run (calls).
NewInstance(cls, d, hdr, n, g) ==
    [cls |-> cls, dcm_data |-> d, csa_header |-> hdr,
     n_mosaic |-> n, mosaic_size |-> g,
     cache |-> [a \in Attrs |-> Unset], calls |-> [a \in Attrs |-> 0]]

Called(w, a) == [w EXCEPT !.calls[a] = @ + 1]

\* The one element of a singleton set.  { e(x) : x \in {arg} } evaluates arg
\* once and names its value x, which the definitions below use to thread
\* the instance through a sequence of attribute reads.
Only(S) == CHOOSE x \in S : TRUE

\* OneTimeProperty.__get__: an attribute already stored on the instance is
\* returned as is; otherwise the getter runs (res is its outcome on
\* Called(w, a)) and its value is stored with setattr before it is returned.
\* A getter that raises stores nothing.
OneTime(w, a, res) ==
    IF w.cache[a] # Unset THEN Ret(w, w.cache[a])
    ELSE Only({ IF IsRaise(x.r) THEN x
                ELSE Ret([x.w EXCEPT !.cache[a] = x.r], x.r) : x \in {res} })

---------------------------------------------------------------------------
(* Wrapper: the getters behind the one_time attributes.  Each getter takes  *)
(* the instance and returns Ret(instance, outcome): reading another         *)
(* attribute inside a getter goes through that attribute's descriptor.      *)

\* np.array(iop).reshape(2,3).T : a (3,2) matrix whose column j holds
\* elements 3j..3j+2 of the six direction cosines
Wrapper_image_orient_patient(w) ==
    IF get(w, "ImageOrientationPatient") = None THEN Ret(w, None)
    ELSE Ret(w, Val(Transpose(
            [i \in 1..2 |-> [j \in 1..3 |->
                get(w, "ImageOrientationPatient").v[3 * (i - 1) + j]]])))

image_orient_patient(w) ==
    OneTime(w, "image_orient_patient",
            Wrapper_image_orient_patient(Called(w, "image_orient_patient")))

\* np.cross(*iop.T[:])
Wrapper_slice_normal(w) ==
    Only({ IF a.r = None THEN Ret(a.w, None)
           ELSE Ret(a.w, Val(Cross(Col(a.r.v, 1), Col(a.r.v, 2)))) :
           a \in {image_orient_patient(w)} })

SiemensWrapper_slice_normal(w) ==
    IF get_slice_normal(w.csa_header) # None
    THEN Ret(w, get_slice_normal(w.csa_header))
    ELSE Only({ IF a.r = None THEN Ret(a.w, None)
                ELSE Ret(a.w, Val(Cross(Col(a.r.v, 1), Col(a.r.v, 2)))) :
                a \in {image_orient_patient(w)} })

\* slice_normal as a plain property: the getter runs on every read
slice_normal_property(w) ==
    IF w.cls = "Wrapper"
    THEN Wrapper_slice_normal(Called(w, "slice_normal"))
    ELSE SiemensWrapper_slice_normal(Called(w, "slice_normal"))

slice_normal(w) ==
    OneTime(w, "slice_normal",
            IF w.cls = "Wrapper"
            THEN Wrapper_slice_normal(Called(w, "slice_normal"))
            ELSE SiemensWrapper_slice_normal(Called(w, "slice_normal")))

\* atol=1e-6 of the orthonormality assertion, in units of 1e-8
RotAtolE8 == 100

\* R = eye(3); R[:,:2] = iop; R[:,2] = s_norm; assert allclose(eye, R.R^T)
RotationOf(iop, s_norm) ==
    [i \in 1..3 |-> <<iop[i][1], iop[i][2], s_norm[i]>>]

IsRotation(R) == AllCloseMat(Eye3, MatMul(R, Transpose(R)), RotAtolE8)

Wrapper_rotation_matrix(w) ==
    Only({ Only({ IF a.r = None \/ b.r = None THEN Ret(b.w, None)
                  ELSE IF IsRotation(RotationOf(a.r.v, b.r.v))
                  THEN Ret(b.w, Val(RotationOf(a.r.v, b.r.v)))
                  ELSE Ret(b.w, Raise("AssertionError")) :
                  b \in {slice_normal(a.w)} }) :
           a \in {image_orient_patient(w)} })

rotation_matrix(w) ==
    OneTime(w, "rotation_matrix",
            Wrapper_rotation_matrix(Called(w, "rotation_matrix")))

\* tuple(pix_space + [zs]) with zs = 1 when SpacingBetweenSlices is absent
Wrapper_voxel_sizes(w) ==
    IF get(w, "PixelSpacing") = None THEN Ret(w, None)
    ELSE Ret(w, Val(get(w, "PixelSpacing").v
                    \o <<getd(w, "SpacingBetweenSlices", 1).v>>))

voxel_sizes(w) ==
    OneTime(w, "voxel_sizes", Wrapper_voxel_sizes(Called(w, "voxel_sizes")))

Wrapper_image_shape(w) ==
    IF get(w, "Rows") = None \/ get(w, "Columns") = None THEN Ret(w, None)
    ELSE Ret(w, Val(<<RInt(get(w, "Rows").v), RInt(get(w, "Columns").v)>>))

\* (rows / mosaic_size, cols / mosaic_size, n_mosaic): mosaic_size is a
\* float, so the quotients are true quotients
MosaicWrapper_image_shape(w) ==
    IF get(w, "Rows") = None \/ get(w, "Columns") = None THEN Ret(w, None)
    ELSE Ret(w, Val(<<Rat(get(w, "Rows").v, w.mosaic_size),
                      Rat(get(w, "Columns").v, w.mosaic_size),
                      RInt(w.n_mosaic)>>))

image_shape(w) ==
    OneTime(w, "image_shape",
            IF w.cls = "MosaicWrapper"
            THEN MosaicWrapper_image_shape(Called(w, "image_shape"))
            ELSE Wrapper_image_shape(Called(w, "image_shape")))

Wrapper_image_position(w) ==
    IF get(w, "ImagePositionPatient") = None THEN Ret(w, None)
    ELSE Ret(w, Val(RVec(get(w, "ImagePositionPatient").v)))

\* ipp + dot(iop * vox[:2], (md_xy - md_xy / mosaic_size) / 2), where
\* md_xy = (Rows, Columns), iop is (3,2) and vox[:2] scales its columns
MosaicPosition(ipp, o_rows, o_cols, iop, vox, mosaic_size) ==
    LET md_xy == <<RInt(o_rows), RInt(o_cols)>>
        rd_xy == [k \in 1..2 |-> RDivInt(md_xy[k], mosaic_size)]
        vox_trans_fixes ==
            [k \in 1..2 |-> RDivInt(RSub(md_xy[k], rd_xy[k]), 2)]
        M == [i \in 1..3 |-> [k \in 1..2 |-> iop[i][k] * vox[k]]]
    IN [i \in 1..3 |->
           RAdd(RInt(ipp[i]),
                RAdd(RMul(RInt(M[i][1]), vox_trans_fixes[1]),
                     RMul(RInt(M[i][2]), vox_trans_fixes[2])))]

\* the recorded position, without the mosaic correction
MosaicWrapper_image_position_recorded(w) ==
    IF get(w, "ImagePositionPatient") = None THEN Ret(w, None)
    ELSE Ret(w, Val(RVec(get(w, "ImagePositionPatient").v)))

MosaicWrapper_image_position(w) ==
    Only({ Only({ IF \/ get(w, "ImagePositionPatient") = None
                     \/ get(w, "Rows") = None
                     \/ get(w, "Columns") = None
                     \/ a.r = None
                     \/ b.r = None
                  THEN Ret(b.w, None)
                  ELSE Ret(b.w,
                           Val(MosaicPosition(
                                   get(w, "ImagePositionPatient").v,
                                   get(w, "Rows").v, get(w, "Columns").v,
                                   a.r.v, b.r.v, w.mosaic_size))) :
                  b \in {voxel_sizes(a.w)} }) :
           a \in {image_orient_patient(w)} })

image_position(w) ==
    OneTime(w, "image_position",
            IF w.cls = "MosaicWrapper"
            THEN MosaicWrapper_image_position(Called(w, "image_position"))
            ELSE Wrapper_image_position(Called(w, "image_position")))

\* np.inner(ipp, s_norm)
Inner(ipp, s_norm) ==
    RAdd(RMul(ipp[1], RInt(s_norm[1])),
         RAdd(RMul(ipp[2], RInt(s_norm[2])), RMul(ipp[3], RInt(s_norm[3]))))

Wrapper_slice_indicator(w) ==
    Only({ Only({ IF a.r = None \/ b.r = None THEN Ret(b.w, None)
                  ELSE Ret(b.w, Val(Inner(a.r.v, b.r.v))) :
                  b \in {slice_normal(a.w)} }) :
           a \in {image_position(w)} })

slice_indicator(w) ==
    OneTime(w, "slice_indicator",
            Wrapper_slice_indicator(Called(w, "slice_indicator")))

---------------------------------------------------------------------------
(* SiemensWrapper: diffusion attributes *)

\* core.geometry.nearest_pos_semi_def and dwiparams.B2q on the matrices the
\* model feeds them, diagonal ones: the nearest positive semi-definite
\* matrix clamps negative eigenvalues (diagonal entries) to zero; B2q is the
\* eigenvector of the largest eigenvalue scaled by that eigenvalue.
nearest_pos_semi_def(B) ==
    [i \in 1..3 |-> [j \in 1..3 |->
        IF i = j /\ B[i][j] < 0 THEN 0 ELSE B[i][j]]]

B2q(B) ==
    LET m == CHOOSE i \in 1..3 : \A j \in 1..3 : B[j][j] <= B[i][i]
    IN [i \in 1..3 |-> IF i = m THEN B[m][m] ELSE 0]

\* R = self.rotation_matrix.T; B_vox = dot(R, dot(B, R.T))
RotateB(B, rotation) ==
    MatMul(Transpose(rotation), MatMul(B, Transpose(Transpose(rotation))))

\* b_matrix that takes any b-value without a b-matrix for a b0 image
SiemensWrapper_b_matrix_any_b_value(w) ==
    IF get_b_matrix(w.csa_header) = None
    THEN IF get_b_value(w.csa_header) = None THEN Ret(w, None)
         ELSE Ret(w, Val(Zeros3x3))
    ELSE Only({ IF IsRaise(a.r) THEN a
                ELSE IF a.r = None THEN Ret(a.w, Raise("AttributeError"))
                ELSE Ret(a.w,
                         Val(nearest_pos_semi_def(
                                 RotateB(get_b_matrix(w.csa_header).v,
                                         a.r.v)))) :
                a \in {rotation_matrix(w)} })

SiemensWrapper_b_matrix(w) ==
    IF get_b_matrix(w.csa_header) = None
    THEN IF get_b_value(w.csa_header) = None THEN Ret(w, None)
         ELSE IF get_b_value(w.csa_header).v # 0
         THEN Ret(w, Raise("CSAError"))
         ELSE Ret(w, Val(Zeros3x3))
    ELSE Only({ IF IsRaise(a.r) THEN a
                \* self.rotation_matrix.T with rotation_matrix None
                ELSE IF a.r = None THEN Ret(a.w, Raise("AttributeError"))
                ELSE Ret(a.w,
                         Val(nearest_pos_semi_def(
                                 RotateB(get_b_matrix(w.csa_header).v,
                                         a.r.v)))) :
                a \in {rotation_matrix(w)} })

\* b_matrix, q_vector and ice_dims are the class attribute None on Wrapper
b_matrix(w) ==
    IF w.cls = "Wrapper" THEN Ret(w, None)
    ELSE OneTime(w, "b_matrix", SiemensWrapper_b_matrix(Called(w, "b_matrix")))

SiemensWrapper_q_vector(w) ==
    Only({ IF IsRaise(a.r) THEN a
           ELSE IF a.r = None THEN Ret(a.w, None)
           ELSE Ret(a.w, Val(B2q(a.r.v))) :
           a \in {b_matrix(w)} })

q_vector(w) ==
    IF w.cls = "Wrapper" THEN Ret(w, None)
    ELSE OneTime(w, "q_vector", SiemensWrapper_q_vector(Called(w, "q_vector")))

SiemensWrapper_ice_dims(w) == Ret(w, get_ice_dims(w.csa_header))

ice_dims(w) ==
    IF w.cls = "Wrapper" THEN Ret(w, None)
    ELSE OneTime(w, "ice_dims", SiemensWrapper_ice_dims(Called(w, "ice_dims")))

\* the class attribute is_mosaic: False on Wrapper (and SiemensWrapper, which
\* inherits it), True on MosaicWrapper
Wrapper_is_mosaic(w) == w.cls = "MosaicWrapper"

\* attribute access by name
GetAttr(w, a) ==
    CASE a = "image_shape" -> image_shape(w)
      [] a = "image_orient_patient" -> image_orient_patient(w)
      [] a = "slice_normal" -> slice_normal(w)
      [] a = "rotation_matrix" -> rotation_matrix(w)
      [] a = "voxel_sizes" -> voxel_sizes(w)
      [] a = "image_position" -> image_position(w)
      [] a = "slice_indicator" -> slice_indicator(w)
      [] a = "b_matrix" -> b_matrix(w)
      [] a = "q_vector" -> q_vector(w)
      [] a = "ice_dims" -> ice_dims(w)

---------------------------------------------------------------------------
(* get_affine *)

\* aff = eye(4); aff[:3,:3] = orient * vox; aff[:3,3] = ipp
AffineOf(orient, vox, ipp) ==
    [i \in 1..4 |-> [j \in 1..4 |->
        IF i <= 3 /\ j <= 3 THEN RInt(orient[i][j] * vox[j])
        ELSE IF i <= 3 THEN ipp[i]
        ELSE IF j = 4 THEN RInt(1) ELSE RInt(0)]]

\* get_affine without the test of image_position
get_affine_unchecked_position(w) ==
    Only({ IF IsRaise(a.r) THEN a
           ELSE Only({ Only({ IF a.r = None \/ b.r = None
                              THEN Ret(c.w, Raise("WrapperError"))
                              ELSE Ret(c.w, Val(AffineOf(a.r.v, b.r.v,
                                       IF c.r = None
                                       THEN <<RInt(0), RInt(0), RInt(0)>>
                                       ELSE c.r.v))) :
                              c \in {image_position(b.w)} }) :
                       b \in {voxel_sizes(a.w)} }) :
           a \in {rotation_matrix(w)} })

get_affine(w) ==
    Only({ IF IsRaise(a.r) THEN a
           ELSE Only({ Only({ IF a.r = None \/ b.r = None \/ c.r = None
                              THEN Ret(c.w, Raise("WrapperError"))
                              ELSE Ret(c.w, Val(AffineOf(a.r.v, b.r.v, c.r.v))) :
                              c \in {image_position(b.w)} }) :
                       b \in {voxel_sizes(a.w)} }) :
           a \in {rotation_matrix(w)} })

---------------------------------------------------------------------------
(* maybe_same_volume_as.  The outcome is [self, other, r]: both instances   *)
(* after the attribute reads the call made, and what it returned or raised. *)

\* both None match; exactly one None does not; otherwise match_func decides
\* (match is the outcome of match_func(val1, val2))
none_matcher(val1, val2, match) ==
    IF val1 = None /\ val2 = None THEN Val(TRUE)
    ELSE IF val1 = None \/ val2 = None THEN Val(FALSE)
    ELSE match

\* the default atol=1e-8 of np.allclose, in units of 1e-8
AtolE8 == 1

\* np.allclose(iop1, iop2).  With iop2 None numpy compares an array with an
\* object scalar: depending on the numpy at hand that is False or a
\* TypeError, and if_none is the one that happens.
np_allclose(iop1, iop2, if_none) ==
    IF iop2 = None THEN if_none ELSE Val(AllCloseMat(iop1.v, iop2.v, AtolE8))

\* inds = np.array([1,1,1,1,1,1,0,0,1]) is an integer array, so ice[inds]
\* picks the elements at (0-based) indices inds
IceInds == <<1, 1, 1, 1, 1, 1, 0, 0, 1>>
ice_matcher(ice1, ice2) ==
    Val(\A k \in DOMAIN IceInds : ice1[IceInds[k] + 1] = ice2[IceInds[k] + 1])

get_matchers(hdr, shape) ==
    <<get(hdr, "SeriesNumber"), shape, get(hdr, "ImageType"),
      get(hdr, "SequenceName"), get(hdr, "SeriesInstanceID"),
      get(hdr, "EchoNumbers")>>

Outcome(s, o, r) == [self |-> s, other |-> o, r |-> r]

\* lines 248-255: instance numbers, then slice indicators
SameVolumeTail(s, o) ==
    IF none_matcher(get(s, "InstanceNumber"), get(o, "InstanceNumber"),
                    Val(get(s, "InstanceNumber") = get(o, "InstanceNumber"))).v
    THEN Outcome(s, o, Val(FALSE))
    ELSE Only({ Outcome(a.w, b.w, Val(a.r # b.r)) :
                a \in {slice_indicator(s)}, b \in {slice_indicator(o)} })

\* lines 240-247: the ICE dimension indices
SameVolumeIce(s, o) ==
    Only({ IF ~none_matcher(a.r, b.r, ice_matcher(a.r.v, b.r.v)).v
           THEN Outcome(a.w, b.w, Val(FALSE))
           ELSE SameVolumeTail(a.w, b.w) :
           a \in {ice_dims(s)}, b \in {ice_dims(o)} })

\* lines 236-239: none_matcher(iop1, iop1, lambda x, y: allclose(iop1, iop2))
SameVolumeOrient(s, o, if_none) ==
    Only({ Only({ IF IsRaise(m) THEN Outcome(a.w, b.w, m)
                  ELSE IF ~m.v THEN Outcome(a.w, b.w, Val(FALSE))
                  ELSE SameVolumeIce(a.w, b.w) :
                  m \in {none_matcher(a.r, a.r, np_allclose(a.r, b.r, if_none))} }) :
           a \in {image_orient_patient(s)}, b \in {image_orient_patient(o)} })

maybe_same_volume_as(s, o, if_none) ==
    Only({ IF get_matchers(s, a.r) # get_matchers(o, b.r)
           THEN Outcome(a.w, b.w, Val(FALSE))
           ELSE SameVolumeOrient(a.w, b.w, if_none) :
           a \in {image_shape(s)}, b \in {image_shape(o)} })

---------------------------------------------------------------------------
(* Constructors and the factory.  A constructor returns Val(instance) or    *)
(* Raise(error).                                                            *)

Wrapper_init(d) ==
    Val(NewInstance("Wrapper", IF d = None THEN EmptyDcm ELSE d,
                    None, None, None))

\* csa_header None: read it from dcm_data, and use {} when there is none
SiemensWrapper_csa(d, csa_header) ==
    LET dcm_data == IF d = None THEN EmptyDcm ELSE d
    IN IF csa_header # None THEN csa_header.v
       ELSE IF get_csa_header(dcm_data) = None THEN EmptyCsa
       ELSE get_csa_header(dcm_data).v

SiemensWrapper_init(d, csa_header) ==
    Val(NewInstance("SiemensWrapper", IF d = None THEN EmptyDcm ELSE d,
                    SiemensWrapper_csa(d, csa_header), None, None))

MosaicWrapper_init(d, csa_header, n_mosaic) ==
    LET hdr == SiemensWrapper_csa(d, csa_header)
        looked == get_n_mosaic(hdr)
        \* try: get_n_mosaic(...) except KeyError: None
        n == IF n_mosaic # None THEN n_mosaic
             ELSE IF IsRaise(looked) THEN None ELSE looked
    IN IF n_mosaic = None /\ (n = None \/ n.v = 0)
       THEN Raise("WrapperError")
       ELSE Val(NewInstance("MosaicWrapper", IF d = None THEN EmptyDcm ELSE d,
                            hdr, n.v, CeilSqrt(n.v)))

\* the factory with the mosaic test the wrong way round
make_wrapper_inverted(d) ==
    LET hdr == get_csa_header(d)
    IN IF hdr = None THEN Wrapper_init(d)
       ELSE IF is_mosaic(hdr.v) THEN SiemensWrapper_init(d, hdr)
       ELSE MosaicWrapper_init(d, hdr, None)

make_wrapper(d) ==
    LET hdr == get_csa_header(d)
    IN IF hdr = None THEN Wrapper_init(d)
       ELSE IF ~is_mosaic(hdr.v) THEN SiemensWrapper_init(d, hdr)
       ELSE MosaicWrapper_init(d, hdr, None)

---------------------------------------------------------------------------
(* Inputs *)

IopAxial == <<1, 0, 0, 0, 1, 0>>      \* orthonormal direction cosines
IopSkew == <<1, 0, 0, 1, 0, 0>>       \* not orthogonal
IceA == <<1, 2, 3, 4, 5, 6, 7, 8, 9>>
BDiag == << <<0, 0, 0>>, <<0, 7, 0>>, <<0, 0, 0>> >>

Opt(S) == {None} \cup {Val(x) : x \in S}

Dcm(rows, cols, iop, ps, sbs, ipp, hdr) ==
    [EmptyDcm EXCEPT !["Rows"] = rows, !["Columns"] = cols,
                     !["ImageOrientationPatient"] = iop,
                     !["PixelSpacing"] = ps,
                     !["SpacingBetweenSlices"] = sbs,
                     !["ImagePositionPatient"] = ipp,
                     !["CSAImageHeader"] = hdr]

\* a mosaic sub-header with three tiles and a recorded b-matrix
MosaicHdr ==
    [is_mosaic |-> TRUE, NumberOfImagesInMosaic |-> Val(3),
     SliceNormalVector |-> None, B_matrix |-> Val(BDiag), B_value |-> None,
     ICE_Dims |-> Val(IceA)]

\* Records that differ in which geometry fields they carry, read through a
\* Wrapper (no sub-header) and through a MosaicWrapper
GeometryInputs ==
    { Dcm(rc[1], rc[2], iop, ps, None, ipp, hdr) :
        rc \in { <<None, None>>, <<Val(4), Val(4)>> },
        iop \in Opt({IopAxial, IopSkew}),
        ps \in Opt({<<2, 3>>}), ipp \in Opt({<<1, 2, 3>>}),
        hdr \in {None} }
    \cup
    { Dcm(rows, cols, iop, ps, None, ipp, Val(MosaicHdr)) :
        rows \in Opt({4}), cols \in Opt({4}),
        iop \in Opt({IopAxial, IopSkew}),
        ps \in Opt({<<2, 3>>}), ipp \in Opt({<<1, 2, 3>>}) }

\* Records that differ in the diffusion fields of the sub-header, read
\* through a SiemensWrapper, with and without an orientation
DiffusionInputs ==
    { Dcm(Val(4), Val(4), iop, Val(<<2, 3>>), Val(5), Val(<<1, 2, 3>>),
          Val(hdr)) :
        iop \in Opt({IopAxial}),
        hdr \in [is_mosaic : {FALSE},
                 NumberOfImagesInMosaic : {None},
                 SliceNormalVector : Opt({<<0, 0, -1>>, <<0, 1, 0>>}),
                 B_matrix : Opt({BDiag}),
                 B_value : Opt({0, 1000}),
                 ICE_Dims : {Val(IceA)}] }

\* Records that differ in what the factory looks at
FactoryInputs ==
    { Dcm(Val(4), Val(4), Val(IopAxial), Val(<<2, 3>>), Val(5),
          Val(<<1, 2, 3>>), Val(hdr)) :
        hdr \in { h \in [is_mosaic : BOOLEAN,
                         NumberOfImagesInMosaic :
                             Opt({0, 3}) \cup {Raise("KeyError")},
                         SliceNormalVector : {None},
                         B_matrix : {None},
                         B_value : {Val(0)},
                         ICE_Dims : {None}] :
                   h.is_mosaic \/ h.NumberOfImagesInMosaic \in Opt({3}) } }

\* Mosaic records with every geometry field present: packed extents with
\* Rows # Columns and the 192 x 192 block, grids of size 2 and 3
IopSagittal == <<0, 1, 0, 0, 0, -1>>
PositionInputs ==
    { Dcm(Val(rc[1]), Val(rc[2]), Val(iop), Val(ps), None, Val(ipp),
          Val([MosaicHdr EXCEPT !.NumberOfImagesInMosaic = Val(n)])) :
        rc \in { <<4, 6>>, <<192, 192>> },
        iop \in {IopAxial, IopSagittal},
        ps \in { <<1, 1>>, <<2, 3>> },
        ipp \in { <<0, 0, 0>>, <<1, 2, 3>> },
        n \in {3, 5} }

Inputs ==
    GeometryInputs \cup DiffusionInputs \cup FactoryInputs \cup PositionInputs

---------------------------------------------------------------------------
(* The wrapper's life: built by the factory, then read *)

MaxCalls == 2

NoOp == [op |-> "none", r |-> None]

Init ==
    /\ pc = "start"
    /\ dcm \in Inputs
    /\ self = NoWrapper
    /\ other = NoWrapper
    /\ last = NoOp

Construct ==
    /\ pc = "start"
    /\ \E made \in {make_wrapper(dcm)} :
          /\ pc' = IF IsRaise(made) THEN "failed" ELSE "live"
          /\ self' = IF IsRaise(made) THEN NoWrapper ELSE made.v
          /\ last' = [op |-> "make_wrapper",
                      r |-> IF IsRaise(made) THEN made ELSE Val(made.v.cls)]
    /\ UNCHANGED <<dcm, other>>

CanCall == \A a \in Attrs : self.calls[a] < MaxCalls

Access(a) ==
    /\ pc = "live"
    /\ CanCall
    /\ \E res \in {GetAttr(self, a)} :
          /\ self' = res.w
          /\ last' = [op |-> a, r |-> res.r]
    /\ UNCHANGED <<pc, dcm, other>>

Affine ==
    /\ pc = "live"
    /\ CanCall
    /\ \E res \in {get_affine(self)} :
          /\ self' = res.w
          /\ last' = [op |-> "get_affine", r |-> res.r]
    /\ UNCHANGED <<pc, dcm, other>>

Next ==
    \/ Construct
    \/ \E a \in Attrs : Access(a)
    \/ Affine

Spec == Init /\ [][Next]_vars

---------------------------------------------------------------------------
(* Properties of the factory, the attributes and get_affine (Spec) *)

InvalidTileCount(hdr) ==
    \/ hdr.NumberOfImagesInMosaic = None
    \/ hdr.NumberOfImagesInMosaic = Val(0)
    \/ IsRaise(hdr.NumberOfImagesInMosaic)

\* C3: make_wrapper selects the variant from the sub-header alone: no
\* sub-header gives a Wrapper; a mosaic sub-header gives a MosaicWrapper
\* holding that sub-header, or the WrapperError of its constructor when the
\* tile count is invalid; any other sub-header gives a SiemensWrapper
\* holding it.  Wrapper reports is_mosaic False, MosaicWrapper True.
C3_FactorySelectsVariant ==
    pc # "start" =>
        LET hdr == get_csa_header(dcm)
        IN /\ hdr = None =>
                /\ pc = "live" /\ self.cls = "Wrapper"
                /\ self.dcm_data = dcm
                /\ ~Wrapper_is_mosaic(self)
           /\ (hdr # None /\ ~hdr.v.is_mosaic) =>
                /\ pc = "live" /\ self.cls = "SiemensWrapper"
                /\ self.dcm_data = dcm /\ self.csa_header = hdr.v
           /\ (hdr # None /\ hdr.v.is_mosaic /\ InvalidTileCount(hdr.v)) =>
                /\ pc = "failed" /\ self = NoWrapper
                /\ last = [op |-> "make_wrapper", r |-> Raise("WrapperError")]
           /\ (hdr # None /\ hdr.v.is_mosaic /\ ~InvalidTileCount(hdr.v)) =>
                /\ pc = "live" /\ self.cls = "MosaicWrapper"
                /\ self.dcm_data = dcm /\ self.csa_header = hdr.v
                /\ Wrapper_is_mosaic(self)
           /\ (pc = "live" /\ last.op = "make_wrapper") =>
                last.r = Val(self.cls)

C3_Witness ==
    /\ pc = "live" /\ last.op = "make_wrapper"
    /\ self.cls = "MosaicWrapper" /\ Wrapper_is_mosaic(self)
    /\ get_csa_header(dcm).v.is_mosaic

\* C4: reading an attribute yields a value or None and never raises, but for
\* the orthonormality assertion and the nonzero-b-value error; and b_matrix
\* and q_vector are None when the sub-header has a b-matrix but the record
\* has no orientation to rotate it with.
C4_AttributesNeverRaise ==
    last.op \in Attrs =>
        /\ IsRaise(last.r) => last.r.e \in {"AssertionError", "CSAError"}
        /\ ( /\ last.op \in {"b_matrix", "q_vector"}
             /\ self.cls # "Wrapper"
             /\ get_b_matrix(self.csa_header) # None
             /\ get(self, "ImageOrientationPatient") = None ) =>
                last.r = None

GeometryMissing ==
    \/ dcm["ImageOrientationPatient"] = None
    \/ dcm["PixelSpacing"] = None
    \/ dcm["ImagePositionPatient"] = None

\* C5 as claimed: get_affine raises WrapperError exactly when one of
\* rotation_matrix, voxel_sizes, image_position is None and returns an affine
\* otherwise; a record without orientation, pixel spacing or position always
\* fails with WrapperError.
C5_AffineFailsExactlyOnNone ==
    last.op = "get_affine" =>
        LET unavailable ==
                \E a \in {"rotation_matrix", "voxel_sizes", "image_position"} :
                    GetAttr(self, a).r = None
        IN /\ (last.r = Raise("WrapperError")) <=> unavailable
           /\ ~unavailable => last.r.t = "val"
           /\ GeometryMissing => last.r = Raise("WrapperError")

\* C5: get_affine reads rotation_matrix first and the orthonormality
\* assertion of that read propagates; when that read does not raise,
\* get_affine raises WrapperError exactly when one of rotation_matrix,
\* voxel_sizes, image_position is None and otherwise returns an affine whose
\* translation column is image_position.  A record without orientation
\* always fails with WrapperError; a record without pixel spacing or
\* position never yields a matrix: it fails with WrapperError, or with the
\* AssertionError of a non-orthonormal rotation.
C5_AffineFailsOnNoneUnlessAssertion ==
    last.op = "get_affine" =>
        LET rot == GetAttr(self, "rotation_matrix").r
            vox == GetAttr(self, "voxel_sizes").r
            ipp == GetAttr(self, "image_position").r
        IN /\ IsRaise(rot) => last.r = Raise("AssertionError")
           /\ ~IsRaise(rot) =>
                IF rot = None \/ vox = None \/ ipp = None
                THEN last.r = Raise("WrapperError")
                ELSE /\ last.r.t = "val"
                     /\ \A i \in 1..3 : last.r.v[i][4] = ipp.v[i]
                     /\ last.r.v[4] = <<RInt(0), RInt(0), RInt(0), RInt(1)>>
           /\ dcm["ImageOrientationPatient"] = None =>
                last.r = Raise("WrapperError")
           /\ GeometryMissing =>
                (last.r = Raise("WrapperError") \/ last.r = Raise("AssertionError"))

C5_Witness ==
    /\ last.op = "get_affine" /\ last.r = Raise("WrapperError")
    /\ self.cls = "MosaicWrapper"
    /\ dcm["ImageOrientationPatient"] # None
    /\ dcm["PixelSpacing"] # None
    /\ dcm["ImagePositionPatient"] = None

\* what holds of the attribute store whether or not getters may run again
MemoisedOnce(atMostOnce) ==
    pc = "live" =>
        /\ last.op = "make_wrapper" =>
                \A a \in Attrs : self.calls[a] = 0 /\ self.cache[a] = Unset
        /\ \A a \in Attrs :
                /\ atMostOnce => self.calls[a] <= 1
                /\ self.cache[a] # Unset =>
                        /\ self.calls[a] = 1
                        /\ GetAttr(self, a) = Ret(self, self.cache[a])
                /\ (self.cache[a] = Unset /\ self.calls[a] > 0) =>
                        IsRaise(GetAttr(self, a).r)
        /\ (last.op \in Attrs /\ self.cache[last.op] # Unset) =>
                last.r = self.cache[last.op]

\* C6 as claimed: construction computes nothing, every getter runs at most
\* once over the life of the instance, and every later read returns the
\* value of that one run.
C6_GetterRunsAtMostOnce == MemoisedOnce(TRUE)

\* C6: construction computes nothing; a getter that has returned a value
\* (None included) has run exactly once, its value is stored and every later
\* read returns it without running the getter; a getter that raised has
\* stored nothing and runs again on the next read.
C6_LazyMemoisation == MemoisedOnce(FALSE)

\* image_orient_patient is read again after slice_indicator has computed it
C6_Witness ==
    /\ pc = "live" /\ self.cls = "Wrapper"
    /\ last.op = "image_orient_patient" /\ last.r # None
    /\ self.cache["slice_indicator"] # Unset
    /\ self.calls["image_orient_patient"] = 1

---------------------------------------------------------------------------
(* Pairs of wrappers compared with maybe_same_volume_as (SpecMatch) *)

IopCoronal == <<1, 0, 0, 0, 0, -1>>
IceB == <<1, 2, 3, 4, 5, 6, 0, 0, 9>>     \* differs from IceA at 6 and 7
IceC == <<1, 2, 3, 0, 5, 6, 7, 8, 9>>     \* differs from IceA at 3
IceD == <<0, 2, 3, 4, 5, 6, 7, 8, 9>>     \* differs from IceA at 0

IceHdr(ice) ==
    [is_mosaic |-> FALSE, NumberOfImagesInMosaic |-> None,
     SliceNormalVector |-> None, B_matrix |-> None, B_value |-> None,
     ICE_Dims |-> Val(ice)]

MatchInputs ==
    { [Dcm(Val(4), Val(4), iop, Val(<<2, 3>>), None, ipp, hdr)
          EXCEPT !["SeriesNumber"] = Val(series),
                 !["EchoNumbers"] = Val(1),
                 !["InstanceNumber"] = inst] :
        series \in {1, 2},
        iop \in Opt({IopAxial, IopCoronal}),
        ipp \in Opt({<<1, 2, 3>>, <<1, 2, 8>>}),
        inst \in Opt({1, 2}),
        hdr \in {None} \cup {Val(IceHdr(ice)) : ice \in {IceA, IceB, IceC, IceD}} }

InitMatch ==
    /\ pc = "pair"
    /\ dcm = EmptyDcm
    /\ \E d1 \in MatchInputs, d2 \in MatchInputs :
          /\ self = make_wrapper(d1).v
          /\ other = make_wrapper(d2).v
    /\ last = NoOp

MaybeSameVolume ==
    /\ pc = "pair"
    /\ \E if_none \in {Val(FALSE), Raise("TypeError")} :
       \E res \in {maybe_same_volume_as(self, other, if_none)} :
          /\ self' = res.self
          /\ other' = res.other
          /\ last' = [op |-> "maybe_same_volume_as", r |-> res.r]
    /\ pc' = "compared"
    /\ UNCHANGED dcm

NextMatch == MaybeSameVolume

SpecMatch == InitMatch /\ [][NextMatch]_vars

Compared == last.op = "maybe_same_volume_as"

\* the fields of step 1 agree (image_shape is read from Rows and Columns)
SameDiscriminators ==
    \A k \in {"SeriesNumber", "Rows", "Columns", "ImageType", "SequenceName",
              "SeriesInstanceID", "EchoNumbers"} :
        get(self, k) = get(other, k)

SameOrientation ==
    get(self, "ImageOrientationPatient") = get(other, "ImageOrientationPatient")

SameIceDims == GetAttr(self, "ice_dims").r = GetAttr(other, "ice_dims").r

SameSliceIndicator ==
    GetAttr(self, "slice_indicator").r = GetAttr(other, "slice_indicator").r

\* C1: for two wrappers with the same discriminator fields, orientation and
\* ICE dimension indices, maybe_same_volume_as is True when neither has an
\* InstanceNumber and the slice indicators differ, False when the slice
\* indicators are equal, and False when both have the same InstanceNumber.
C1_SameVolumeDecision ==
    (Compared /\ SameDiscriminators /\ SameOrientation /\ SameIceDims) =>
        /\ ( /\ get(self, "InstanceNumber") = None
             /\ get(other, "InstanceNumber") = None
             /\ ~SameSliceIndicator ) => last.r = Val(TRUE)
        /\ SameSliceIndicator => last.r = Val(FALSE)
        /\ ( /\ get(self, "InstanceNumber") # None
             /\ get(self, "InstanceNumber") = get(other, "InstanceNumber") ) =>
                last.r = Val(FALSE)

\* C2: maybe_same_volume_as returns a boolean and never raises; with the
\* discriminator fields equal, an orientation that is absent on exactly one
\* of the two wrappers, or present on both and not close, gives False.
C2_OrientationStepNoneAware ==
    Compared =>
        /\ last.r \in {Val(TRUE), Val(FALSE)}
        /\ SameDiscriminators =>
            LET iop1 == GetAttr(self, "image_orient_patient").r
                iop2 == GetAttr(other, "image_orient_patient").r
            IN /\ ((iop1 = None) # (iop2 = None)) => last.r = Val(FALSE)
               /\ ( /\ iop1 # None /\ iop2 # None
                    /\ ~AllCloseMat(iop1.v, iop2.v, AtolE8) ) =>
                        last.r = Val(FALSE)

---------------------------------------------------------------------------
(* Pixel data: arrays, get_pixel_array, _scale_data and get_data            *)
(*                                                                          *)
(* An ndarray is its shape, its elements in C (row-major) order, its dtype  *)
(* and, for observation, the arithmetic that has been applied to it (ops).  *)
(* Elements are exact rationals.  A Python scalar is a value q with its     *)
(* type ty ("int" or "float").                                              *)

PyInt(n) == [q |-> RInt(n), ty |-> "int"]
PyFloat(n, d) == [q |-> Rat(n, d), ty |-> "float"]

RECURSIVE Prod(_)
Prod(shape) == IF shape = <<>> THEN 1 ELSE Head(shape) * Prod(Tail(shape))

NdArray(shape, flat, dtype) ==
    [shape |-> shape, flat |-> flat, dtype |-> dtype, ops |-> <<>>]

\* ndarray.reshape(*shape): the elements keep their C order; the sizes must
\* agree
reshape(arr, shape) ==
    IF Prod(shape) # Len(arr.flat) THEN Raise("ValueError")
    ELSE Val([arr EXCEPT !.shape = shape])

\* a 4-D array read without the exchange of its two middle axes
rollaxis_identity(v4) == v4

\* np.rollaxis(v4, 2, 1) of a 4-D array: axes (0, 1, 2, 3) -> (0, 2, 1, 3);
\* element (i, k, j, l) of the result is element (i, j, k, l) of v4
rollaxis_2_1(v4) ==
    LET a == v4.shape[1]
        b == v4.shape[2]
        c == v4.shape[3]
        d == v4.shape[4]
    IN [v4 EXCEPT
          !.shape = <<a, c, b, d>>,
          !.flat = [p \in 1..Len(v4.flat) |->
                      LET l == (p - 1) % d
                          j == ((p - 1) \div d) % b
                          k == ((p - 1) \div (d * b)) % c
                          i == (p - 1) \div (d * b * c)
                      IN v4.flat[((i * b + j) * c + k) * d + l + 1]]]

\* v3[:n]: the first n entries along the first axis
SliceFirst(v3, n) ==
    LET m == IF n < v3.shape[1] THEN n ELSE v3.shape[1]
    IN [v3 EXCEPT !.shape = <<m, v3.shape[2], v3.shape[3]>>,
                  !.flat = SubSeq(v3.flat, 1, m * v3.shape[2] * v3.shape[3])]

\* the dtype of array (op) Python scalar: a float scalar upcasts an integer
\* array to float64, an int scalar leaves the dtype alone
Promote(dtype, ty) ==
    IF dtype = "float64" \/ ty = "float" THEN "float64" ELSE dtype

\* data * scale
ArrMul(data, scale) ==
    [data EXCEPT !.flat = [i \in 1..Len(data.flat) |->
                             RMul(data.flat[i], scale.q)],
                 !.dtype = Promote(data.dtype, scale.ty),
                 !.ops = Append(data.ops, "mul")]

\* data + offset
ArrAdd(data, offset) ==
    [data EXCEPT !.flat = [i \in 1..Len(data.flat) |->
                             RAdd(data.flat[i], offset.q)],
                 !.dtype = Promote(data.dtype, offset.ty),
                 !.ops = Append(data.ops, "add")]

\* Wrapper.__getitem__: KeyError for a field that is not in dcm_data
Wrapper_getitem(w, key) ==
    IF w.dcm_data[key] = None THEN Raise("KeyError") ELSE w.dcm_data[key]

get_pixel_array(w) ==
    Only({ IF IsRaise(item) THEN Raise("WrapperError") ELSE item :
             item \in {Wrapper_getitem(w, "pixel_array")} })

\* rescaling that always multiplies and always adds
Wrapper_scale_data_always(w, data) ==
    LET scale == getd(w, "RescaleSlope", PyInt(1)).v
        offset == getd(w, "RescaleIntercept", PyInt(0)).v
    IN ArrAdd(ArrMul(data, scale), offset)

\* Wrapper._scale_data; Python compares numbers by value, so 1.0 != 1 is
\* False
Wrapper_scale_data(w, data) ==
    LET scale == getd(w, "RescaleSlope", PyInt(1)).v
        offset == getd(w, "RescaleIntercept", PyInt(0)).v
    IN IF scale.q # RInt(1)
       THEN IF offset.q = RInt(0) THEN ArrMul(data, scale)
            ELSE ArrAdd(ArrMul(data, scale), offset)
       ELSE IF offset.q # RInt(0) THEN ArrAdd(data, offset)
       ELSE data

\* Wrapper.get_data
Wrapper_get_data(w) ==
    Only({ IF IsRaise(data) THEN Ret(w, data)
           ELSE Ret(w, Val(Wrapper_scale_data(w, data.v))) :
             data \in {get_pixel_array(w)} })

\* MosaicWrapper.get_data.  reshape takes the whole part of an extent given
\* as a float (image_shape holds true quotients).
MosaicWrapper_untile(w, shape, data) ==
    LET n_rows == RFloor(shape[1])
        n_cols == RFloor(shape[2])
        n_mosaic == RFloor(shape[3])
        mosaic_size == w.mosaic_size
    IN Only({ IF IsRaise(v4) THEN Ret(w, v4)
              ELSE Only({ Ret(w, Val(Wrapper_scale_data(
                                        w, SliceFirst(v3.v, n_mosaic)))) :
                            v3 \in {reshape(rollaxis_2_1(v4.v),
                                            <<mosaic_size * mosaic_size,
                                              n_rows, n_cols>>)} }) :
                v4 \in {reshape(data, <<mosaic_size, n_rows,
                                        mosaic_size, n_cols>>)} })

MosaicWrapper_get_data(w) ==
    Only({ IF s.r = None THEN Ret(s.w, Raise("WrapperError"))
           ELSE Only({ IF IsRaise(data) THEN Ret(s.w, data)
                       ELSE MosaicWrapper_untile(s.w, s.r.v, data.v) :
                         data \in {get_pixel_array(s.w)} }) :
             s \in {image_shape(w)} })

get_data(w) ==
    IF w.cls = "MosaicWrapper" THEN MosaicWrapper_get_data(w)
    ELSE Wrapper_get_data(w)

---------------------------------------------------------------------------
(* Inputs and operations for the pixel data (SpecData) *)

MaxTiles == 5        \* tile counts 1..MaxTiles (grid sizes 1, 2 and 3)
MaxTileRows == 2
MaxTileCols == 2

Slopes == {None, Val(PyInt(1)), Val(PyFloat(1, 1)), Val(PyFloat(2, 1)),
           Val(PyFloat(1, 2)), Val(PyInt(3))}
Intercepts == {None, Val(PyInt(0)), Val(PyFloat(0, 1)), Val(PyInt(5)),
               Val(PyFloat(-3, 2))}
Dtypes == {"int16", "float64"}

\* a packed block whose tile i (row-major in the grid) is filled with i
TileFill(rows, cols, tr, tc, g) ==
    [p \in 1..(rows * cols) |->
        RInt((((p - 1) \div cols) \div tr) * g + ((p - 1) % cols) \div tc)]

\* a block whose elements are all different
RampFill(rows, cols) == [p \in 1..(rows * cols) |-> RInt(p - 1)]

PixelData(d, arr, slope, intercept) ==
    [d EXCEPT !["pixel_array"] = arr, !["RescaleSlope"] = slope,
              !["RescaleIntercept"] = intercept]

\* a mosaic record: n tiles of extent (tr, tc) packed in a g x g grid; with
\* extra = 1 the block has one row and one column more than the grid
MosaicData(n, tr, tc, extra, fill, dtype, slope, intercept) ==
    LET g == CeilSqrt(n)
        rows == g * tr + extra
        cols == g * tc + extra
    IN PixelData(Dcm(Val(rows), Val(cols), None, None, None, None,
                     Val([MosaicHdr EXCEPT !.NumberOfImagesInMosaic = Val(n)])),
                 Val(NdArray(<<rows, cols>>,
                             IF fill = "tile"
                             THEN TileFill(rows, cols, tr, tc, g)
                             ELSE RampFill(rows, cols),
                             dtype)),
                 slope, intercept)

DataInputs ==
    { MosaicData(n, tr, tc, extra, fill, dtype, slope, intercept) :
        n \in 1..MaxTiles, tr \in 1..MaxTileRows, tc \in 1..MaxTileCols,
        extra \in {0, 1}, fill \in {"tile", "ramp"}, dtype \in Dtypes,
        slope \in Slopes, intercept \in Intercepts }
    \cup
    \* no sub-header: a plain Wrapper on a 2 x 3 block
    { PixelData(Dcm(Val(2), Val(3), None, None, None, None, None),
                Val(NdArray(<<2, 3>>, RampFill(2, 3), dtype)),
                slope, intercept) :
        dtype \in Dtypes, slope \in Slopes, intercept \in Intercepts }
    \cup
    \* records without pixel data, and a mosaic record without Rows, Columns
    { PixelData(Dcm(rc, rc, None, None, None, None, hdr), arr,
                Val(PyFloat(2, 1)), None) :
        rc \in Opt({4}), hdr \in {None, Val(MosaicHdr)},
        arr \in {None, Val(NdArray(<<4, 4>>, RampFill(4, 4), "int16"))} }

InitData ==
    /\ pc = "start"
    /\ dcm \in DataInputs
    /\ self = NoWrapper
    /\ other = NoWrapper
    /\ last = NoOp

GetPixelArray ==
    /\ pc = "live"
    /\ \E res \in {get_pixel_array(self)} :
          last' = [op |-> "get_pixel_array", r |-> res]
    /\ UNCHANGED <<pc, dcm, self, other>>

GetData ==
    /\ pc = "live"
    /\ \E res \in {get_data(self)} :
          /\ self' = res.w
          /\ last' = [op |-> "get_data", r |-> res.r]
    /\ UNCHANGED <<pc, dcm, other>>

NextData ==
    \/ Construct
    \/ GetPixelArray
    \/ GetData

SpecData == InitData /\ [][NextData]_vars

---------------------------------------------------------------------------
(* Properties of get_data (SpecData) *)

GotData == last.op = "get_data" /\ ~IsRaise(last.r)

\* slope and intercept of the record, with the defaults 1 and 0
SlopeOf(d) ==
    IF d["RescaleSlope"] = None THEN RInt(1) ELSE d["RescaleSlope"].v.q
InterceptOf(d) ==
    IF d["RescaleIntercept"] = None THEN RInt(0)
    ELSE d["RescaleIntercept"].v.q
Rescaled(x, d) == RAdd(RMul(x, SlopeOf(d)), InterceptOf(d))

TileCountOf(d) == d["CSAImageHeader"].v.NumberOfImagesInMosaic.v

\* C7: MosaicWrapper.get_data() un-tiles in row-major grid order.  With n
\* tiles, g = ceil(sqrt(n)), tile extent (tr, tc) and packed block P, the
\* output has exactly n slices and element (r, c) of slice k is
\* rescale(P[(k div g)*tr + r][(k mod g)*tc + c]); a block whose tile i is
\* filled with i yields a stack whose slice i is constant rescale(i).
C7_UntilesRowMajor ==
    (GotData /\ self.cls = "MosaicWrapper") =>
        LET out == last.r.v
            P == dcm["pixel_array"].v
            n == TileCountOf(dcm)
            g == CeilSqrt(n)
            cols == dcm["Columns"].v
            tr == dcm["Rows"].v \div g
            tc == cols \div g
        IN /\ Len(out.flat) = n * tr * tc
           /\ \A k \in 0..(n - 1), r \in 0..(tr - 1), c \in 0..(tc - 1) :
                 /\ out.flat[(k * tr + r) * tc + c + 1] =
                      Rescaled(P.flat[((k \div g) * tr + r) * cols
                                      + (k % g) * tc + c + 1], dcm)
                 /\ P.flat = TileFill(g * tr, g * tc, tr, tc, g) =>
                      out.flat[(k * tr + r) * tc + c + 1] =
                         Rescaled(RInt(k), dcm)

\* three tiles of extent (2, 1) in a 2 x 2 grid, all elements different,
\* un-tiled and rescaled: the fourth tile is dropped
C7_Witness ==
    /\ GotData
    /\ self.cls = "MosaicWrapper"
    /\ TileCountOf(dcm) = 3
    /\ dcm["pixel_array"].v.flat = RampFill(4, 2)
    /\ dcm["RescaleSlope"] = Val(PyFloat(2, 1))
    /\ Len(last.r.v.flat) = 6

\* C8: the array returned by MosaicWrapper.get_data() has the extents
\* (tile_rows, tile_cols, tile_count) of the wrapper's image_shape, the
\* slice axis last.
C8_DataShapeIsImageShape ==
    (GotData /\ self.cls = "MosaicWrapper") =>
        LET shape == self.cache["image_shape"].v
        IN last.r.v.shape =
             <<RFloor(shape[1]), RFloor(shape[2]), RFloor(shape[3])>>

\* C9: get_data() returns data*slope + intercept elementwise (defaults 1
\* and 0); with slope == 1 and intercept == 0 the block is returned as it
\* is, no arithmetic applied and the numeric type kept; with intercept == 0
\* and slope != 1 only the multiplication is applied; with slope == 1 and
\* intercept != 0 only the addition.
C9_Rescaling ==
    GotData =>
        LET out == last.r.v
            P == dcm["pixel_array"].v
            slope == SlopeOf(dcm)
            intercept == InterceptOf(dcm)
        IN /\ self.cls = "Wrapper" =>
                /\ out.shape = P.shape
                /\ Len(out.flat) = Len(P.flat)
                /\ \A i \in 1..Len(P.flat) :
                      out.flat[i] = Rescaled(P.flat[i], dcm)
           /\ (slope = RInt(1) /\ intercept = RInt(0)) =>
                /\ out.ops = <<>>
                /\ out.dtype = P.dtype
                /\ self.cls = "Wrapper" => out = P
           /\ (slope # RInt(1) /\ intercept = RInt(0)) => out.ops = <<"mul">>
           /\ (slope = RInt(1) /\ intercept # RInt(0)) => out.ops = <<"add">>

\* an int16 block on a plain Wrapper with slope 2.0 and no intercept: the
\* data was multiplied (and upcast), nothing was added
C9_Witness ==
    /\ GotData
    /\ self.cls = "Wrapper"
    /\ dcm["pixel_array"].v.dtype = "int16"
    /\ dcm["RescaleSlope"] = Val(PyFloat(2, 1))
    /\ dcm["RescaleIntercept"] = None
    /\ last.r.v.ops = <<"mul">>
    /\ last.r.v.dtype = "float64"
    /\ last.r.v.flat[6] = RInt(10)

---------------------------------------------------------------------------
(* MosaicWrapper constructed directly, with the caller's own sub-header and *)
(* tile count (SpecMosaic)                                                  *)

TileHdr(mosaic, n) ==
    [EmptyCsa EXCEPT !.is_mosaic = mosaic, !.NumberOfImagesInMosaic = n]

TileCounts == {None, Val(0), Val(3), Raise("KeyError")}

MosaicInitInputs ==
    { Dcm(rc, rc, None, None, None, None, hdr) :
        rc \in Opt({4}),
        hdr \in {None} \cup { Val(TileHdr(mosaic, n)) :
                                mosaic \in BOOLEAN, n \in TileCounts } }

InitMosaic ==
    /\ pc = "start"
    /\ dcm \in MosaicInitInputs
    /\ self = NoWrapper
    /\ other = NoWrapper
    /\ last = NoOp

\* MosaicWrapper(dcm, csa_header, n_mosaic) with each optional argument
\* given or left out
ConstructMosaic ==
    /\ pc = "start"
    /\ \E csa_header \in {None} \cup {Val(TileHdr(TRUE, n)) : n \in TileCounts},
          n_mosaic \in {None} \cup {Val(n) : n \in 0..MaxTiles} :
       \E made \in {MosaicWrapper_init(dcm, csa_header, n_mosaic)} :
          /\ pc' = IF IsRaise(made) THEN "failed" ELSE "live"
          /\ self' = IF IsRaise(made) THEN NoWrapper ELSE made.v
          /\ last' = [op |-> "MosaicWrapper",
                      r |-> IF IsRaise(made) THEN made ELSE Val(made.v.cls),
                      csa_header |-> csa_header, n_mosaic |-> n_mosaic]
    /\ UNCHANGED <<dcm, other>>

NextMosaic == ConstructMosaic

SpecMosaic == InitMosaic /\ [][NextMosaic]_vars

\* the sub-header in effect: the caller's, else the record's, else {}
HeaderInEffect ==
    IF last.csa_header # None THEN last.csa_header.v
    ELSE IF dcm["CSAImageHeader"] # None THEN dcm["CSAImageHeader"].v
    ELSE EmptyCsa

\* the tile count in effect: the caller's, else the sub-header's, a failed
\* lookup counting as missing
TileCountInEffect ==
    IF last.n_mosaic # None THEN last.n_mosaic
    ELSE IF IsRaise(HeaderInEffect.NumberOfImagesInMosaic) THEN None
    ELSE HeaderInEffect.NumberOfImagesInMosaic

\* C11: a MosaicWrapper never exists with a missing or zero tile count.
\* Construction fails with WrapperError whenever the tile count in effect
\* is None or zero; every constructed MosaicWrapper has n_mosaic >= 1 and
\* mosaic_size = ceil(sqrt(n_mosaic)), so mosaic_size >= 1 and
\* mosaic_size^2 >= n_mosaic.
C11_TileCountValid ==
    /\ (last.op = "MosaicWrapper"
          /\ (TileCountInEffect = None \/ TileCountInEffect = Val(0)))
         => last.r = Raise("WrapperError")
    /\ self.cls = "MosaicWrapper" =>
         /\ self.n_mosaic >= 1
         /\ self.mosaic_size = CeilSqrt(self.n_mosaic)
         /\ self.mosaic_size >= 1
         /\ self.mosaic_size * self.mosaic_size >= self.n_mosaic

---------------------------------------------------------------------------
(* The orthonormality assertion on finely resolved direction cosines        *)
(* (SpecRotation).  The tolerances of np.allclose are 1e-6 and 1e-5, so a   *)
(* direction cosine is held here as an exact decimal                        *)
(*    c[1] + c[2]*1e-6 + c[3]*1e-12 + ... (DecLen coefficients)             *)
(* with small integer coefficients; sums and products are exact.            *)

\* coefficients kept: enough for the products formed below (degree 5)
DecLen == 6
Dec(a, b) == [k \in 1..DecLen |-> IF k = 1 THEN a ELSE IF k = 2 THEN b ELSE 0]
DAdd(p, q) == [k \in 1..DecLen |-> p[k] + q[k]]
DSub(p, q) == [k \in 1..DecLen |-> p[k] - q[k]]
DMul(p, q) ==
    [k \in 1..DecLen |-> SumTo([i \in 1..k |-> p[i] * q[k + 1 - i]], k)]

\* the sign of a decimal whose coefficients are all below 10^5 in size: the
\* sign of its first non-zero coefficient
RECURSIVE DSignFrom(_, _)
DSignFrom(p, k) ==
    IF k > DecLen THEN 0
    ELSE IF p[k] > 0 THEN 1
    ELSE IF p[k] < 0 THEN -1
    ELSE DSignFrom(p, k + 1)
DSign(p) == DSignFrom(p, 1)
DAbs(p) == Only({ IF DSign(x) < 0 THEN DSub(Dec(0, 0), x) ELSE x : x \in {p} })
DLeq(p, q) == \A d \in {DSub(q, p)} : DSign(d) >= 0

DVec(v) == [i \in DOMAIN v |-> Dec(v[i], 0)]
DCross(a, b) == << DSub(DMul(a[2], b[3]), DMul(a[3], b[2])),
                   DSub(DMul(a[3], b[1]), DMul(a[1], b[3])),
                   DSub(DMul(a[1], b[2]), DMul(a[2], b[1])) >>
\* np.dot(R, R.T): entry (i, j) is the inner product of rows i and j
DGram(R) ==
    [i \in 1..3 |-> [j \in 1..3 |->
        DAdd(DAdd(DMul(R[i][1], R[j][1]), DMul(R[i][2], R[j][2])),
             DMul(R[i][3], R[j][3]))]]
DEye3 == [i \in 1..3 |-> [j \in 1..3 |-> Dec(IF i = j THEN 1 ELSE 0, 0)]]

\* np.allclose(a, b, atol=1e-6) with the default rtol=1e-5:
\* |a - b| <= atol + rtol * |b| for every entry
DAllClose(A, B) ==
    \A i \in 1..3 : \A j \in 1..3 :
        \A a \in {A[i][j]}, b \in {B[i][j]} :
        \A diff \in {DSub(a, b)}, size \in {DAbs(b)} :
            DLeq(DAbs(diff), DAdd(Dec(0, 1), DMul(Dec(0, 10), size)))

\* Wrapper.slice_normal
Wrapper_slice_normal_dec(w) ==
    Only({ IF a.r = None THEN Ret(a.w, None)
           ELSE Ret(a.w, Val(DCross(Col(a.r.v, 1), Col(a.r.v, 2)))) :
           a \in {image_orient_patient(w)} })

\* the slice normal taken from the orientation whatever the sub-header says
SiemensWrapper_slice_normal_dec_no_header(w) ==
    Only({ IF a.r = None THEN Ret(a.w, None)
           ELSE Ret(a.w, Val(DCross(Col(a.r.v, 1), Col(a.r.v, 2)))) :
           a \in {image_orient_patient(w)} })

\* SiemensWrapper.slice_normal
SiemensWrapper_slice_normal_dec(w) ==
    IF get_slice_normal(w.csa_header) # None
    THEN Ret(w, get_slice_normal(w.csa_header))
    ELSE Only({ IF a.r = None THEN Ret(a.w, None)
                ELSE Ret(a.w, Val(DCross(Col(a.r.v, 1), Col(a.r.v, 2)))) :
                a \in {image_orient_patient(w)} })

slice_normal_dec(w) ==
    OneTime(w, "slice_normal",
            IF w.cls = "Wrapper"
            THEN Wrapper_slice_normal_dec(Called(w, "slice_normal"))
            ELSE SiemensWrapper_slice_normal_dec(Called(w, "slice_normal")))

\* Wrapper.rotation_matrix
Wrapper_rotation_matrix_dec(w) ==
    Only({ Only({ IF a.r = None \/ b.r = None THEN Ret(b.w, None)
                  ELSE Only({ IF DAllClose(DEye3, G) THEN Ret(b.w, Val(R))
                              ELSE Ret(b.w, Raise("AssertionError")) :
                              R \in {RotationOf(a.r.v, b.r.v)},
                              G \in {DGram(RotationOf(a.r.v, b.r.v))} }) :
                  b \in {slice_normal_dec(a.w)} }) :
           a \in {image_orient_patient(w)} })

rotation_matrix_dec(w) ==
    OneTime(w, "rotation_matrix",
            Wrapper_rotation_matrix_dec(Called(w, "rotation_matrix")))

\* direction vectors: the axes, an axis stretched by 2e-6 and by 8e-6, an
\* axis tilted by 1e-6 and by 2e-6, and a diagonal
Directions ==
    { DVec(<<1, 0, 0>>), DVec(<<0, 1, 0>>), DVec(<<0, 0, -1>>),
      DVec(<<1, 1, 0>>),
      <<Dec(1, 2), Dec(0, 0), Dec(0, 0)>>, <<Dec(1, 8), Dec(0, 0), Dec(0, 0)>>,
      <<Dec(0, 1), Dec(1, 0), Dec(0, 0)>>, <<Dec(0, 2), Dec(1, 0), Dec(0, 0)>> }

Normals ==
    { DVec(<<0, 0, 1>>), DVec(<<0, 0, -1>>), DVec(<<0, 1, 0>>),
      <<Dec(0, 0), Dec(0, 0), Dec(1, 2)>>, <<Dec(0, 0), Dec(0, 0), Dec(1, 8)>> }

RotationInputs ==
    { Dcm(None, None, iop, None, None, None, hdr) :
        iop \in {None} \cup { Val(a \o b) : a \in Directions, b \in Directions },
        hdr \in {None} \cup
                { Val([TileHdr(mosaic, Val(3)) EXCEPT !.SliceNormalVector = s]) :
                    mosaic \in BOOLEAN, s \in Opt(Normals) } }

InitRotation ==
    /\ pc = "start"
    /\ dcm \in RotationInputs
    /\ self = NoWrapper
    /\ other = NoWrapper
    /\ last = NoOp

RotationMatrix ==
    /\ pc = "live"
    /\ CanCall
    /\ \E res \in {rotation_matrix_dec(self)} :
          /\ self' = res.w
          /\ last' = [op |-> "rotation_matrix", r |-> res.r]
    /\ UNCHANGED <<pc, dcm, other>>

NextRotation ==
    \/ Construct
    \/ RotationMatrix

SpecRotation == InitRotation /\ [][NextRotation]_vars

\* the orientation columns of the record and the slice normal the wrapper
\* is to use: the sub-header's when there is one, else their cross product
OrientColumn(d, k) ==
    SubSeq(d["ImageOrientationPatient"].v, 3 * k - 2, 3 * k)
NormalInEffect ==
    IF self.cls # "Wrapper" /\ self.csa_header.SliceNormalVector # None
    THEN self.csa_header.SliceNormalVector.v
    ELSE DCross(OrientColumn(dcm, 1), OrientColumn(dcm, 2))
ExpectedRotation ==
    [i \in 1..3 |-> <<OrientColumn(dcm, 1)[i], OrientColumn(dcm, 2)[i],
                      NormalInEffect[i]>>]

\* every entry of R.R^T is within 1e-6 of the identity's
GramWithinAtol(R) ==
    \A i \in 1..3 : \A j \in 1..3 :
        DLeq(DAbs(DSub(DGram(R)[i][j], DEye3[i][j])), Dec(0, 1))

\* every entry e of R.R^T differs from the identity's by at most
\* 1e-6 + 1e-5 * |e|
GramWithinAllClose(R) ==
    \A i \in 1..3 : \A j \in 1..3 :
        DLeq(DAbs(DSub(DEye3[i][j], DGram(R)[i][j])),
             DAdd(Dec(0, 1), DMul(Dec(0, 10), DAbs(DGram(R)[i][j]))))

---------------------------------------------------------------------------
(* The ICE dimension step of maybe_same_volume_as (SpecMatch) *)

\* every check other than the ICE dimension step passes: discriminators
\* equal, orientations present and equal, instance numbers different (or
\* one of them absent), slice indicators different
OtherChecksPass ==
    /\ SameDiscriminators
    /\ get(self, "ImageOrientationPatient") # None
    /\ SameOrientation
    /\ get(self, "InstanceNumber") # get(other, "InstanceNumber")
    /\ ~SameSliceIndicator

\* positions 0, 1, 2, 3, 4, 5 and 8 of the index vector (counted from 1)
IceCompared == {1, 2, 3, 4, 5, 6, 9}

\* C13: with every other check passing, two 9-element ICE index vectors
\* that differ at any of positions 0..5 or 8 give False and a difference
\* confined to positions 6 and 7 does not disqualify; vectors absent on
\* both wrappers pass the step, a vector absent on exactly one gives False.
C13_IceDimsStep ==
    (Compared /\ OtherChecksPass) =>
        LET ice1 == GetAttr(self, "ice_dims").r
            ice2 == GetAttr(other, "ice_dims").r
        IN IF ice1 = None \/ ice2 = None
           THEN last.r = Val(ice1 = None /\ ice2 = None)
           ELSE last.r = Val(\A k \in IceCompared : ice1.v[k] = ice2.v[k])

---------------------------------------------------------------------------
(* MosaicWrapper.image_position (Spec) *)

\* p + o0*v0*((rows - rows/g)/2) + o1*v1*((cols - cols/g)/2), from the
\* fields of the record d and the grid size g
CorrectedPosition(d, g) ==
    LET p == d["ImagePositionPatient"].v
        o0 == SubSeq(d["ImageOrientationPatient"].v, 1, 3)
        o1 == SubSeq(d["ImageOrientationPatient"].v, 4, 6)
        v == d["PixelSpacing"].v
        rows == d["Rows"].v
        cols == d["Columns"].v
        half_rows == Rat(rows * g - rows, 2 * g)
        half_cols == Rat(cols * g - cols, 2 * g)
    IN [i \in 1..3 |->
          RAdd(RInt(p[i]), RAdd(RMul(RInt(o0[i] * v[1]), half_rows),
                                RMul(RInt(o1[i] * v[2]), half_cols)))]

PositionMissing(d) ==
    \/ d["ImagePositionPatient"] = None
    \/ d["Rows"] = None
    \/ d["Columns"] = None
    \/ d["ImageOrientationPatient"] = None
    \/ d["PixelSpacing"] = None

\* C14: the image_position of a MosaicWrapper is None when the recorded
\* position, Rows, Columns, the orientation or the voxel sizes are
\* unavailable, and otherwise
\*   p + o0*v0*((rows - rows/g)/2) + o1*v1*((cols - cols/g)/2);
\* the affine of a MosaicWrapper has this corrected position as its
\* translation column.
C14_MosaicPosition ==
    self.cls = "MosaicWrapper" =>
        /\ last.op = "image_position" =>
              IF PositionMissing(dcm) THEN last.r = None
              ELSE last.r = Val(CorrectedPosition(dcm, CeilSqrt(TileCountOf(dcm))))
        /\ (last.op = "get_affine" /\ ~IsRaise(last.r)) =>
              /\ ~PositionMissing(dcm)
              /\ \A i \in 1..3 :
                    last.r.v[i][4] =
                       CorrectedPosition(dcm, CeilSqrt(TileCountOf(dcm)))[i]

\* rows = cols = 192, grid size 2, identity orientation, voxel sizes
\* (1, 1, 1), recorded position (0, 0, 0): the position is (48, 48, 0)
C14_Witness ==
    /\ self.cls = "MosaicWrapper"
    /\ self.mosaic_size = 2
    /\ dcm["Rows"] = Val(192)
    /\ dcm["Columns"] = Val(192)
    /\ dcm["ImageOrientationPatient"] = Val(IopAxial)
    /\ self.cache["voxel_sizes"] = Val(<<1, 1, 1>>)
    /\ dcm["ImagePositionPatient"] = Val(<<0, 0, 0>>)
    /\ last.op = "image_position"
    /\ last.r = Val(<<RInt(48), RInt(48), RInt(0)>>)

===========================================================================
